---------------------------- MODULE Spec2Model ----------------------------
(***************************************************************************)
(* A model of the Bytestat engine (src/src/lib.rs) and of the way its      *)
(* driver (src/examples/bytestat.rs) feeds it.                             *)
(*                                                                         *)
(* Representation choices, all of them data-structure choices only:        *)
(*  - the engine object is one record, `stats`, with the struct's fields;  *)
(*  - dist and last are functions over 0..255;                             *)
(*  - interval ([u128; 65536], zero-initialised) is a bag of bucket        *)
(*    indices: interval[x] in the code is CopiesIn(x, interval) here, and  *)
(*    `interval[x] += 1` is the bag sum with the singleton bag of x;       *)
(*  - an f64 is an exact reduced fraction [num, den]; 0/0 (f64 NaN) is the *)
(*    fraction with den = 0 and num = 0.  Every quotient the code forms    *)
(*    with a power-of-two divisor is exact in f64; min/max and the sums    *)
(*    that contain it are rounded by the hardware, and rounding to nearest *)
(*    is monotone, so it keeps every order relation with 0, 1 and 100      *)
(*    that the exact value has.                                            *)
(*  - the u128 counters are unbounded naturals: no stream of the model,   *)
(*    and no stream a machine can read, reaches 2^128 bytes.               *)
(***************************************************************************)
EXTENDS Integers, Sequences, FiniteSets, Bags, TLC

VARIABLES
  stats,   \* the Bytestat object
  input,   \* history: the chunks of bytes passed to analyze so far, in order
  op,      \* the public operation that ran last
  ret      \* what that operation returned

vars == <<stats, input, op, ret>>

---------------------------------------------------------------------------
(* Program constants *)

ByteValues == 256
IntervalLen == 65536
SignificanceDiv == 4096
ContinuityCap == 512
Weight == 20

Byte == 0 .. (ByteValues - 1)

(* Bounds of the model *)

MaxCounter == 5
MaxRuns == 3
MaxCycles == 17
MaxLong == 65536
MaxPermLen == 4

Values == {0, 5, 255}
RunValues == {0, 5}
RunLengths == {1, 600, 65535}
Separators == {",", "\n"}

---------------------------------------------------------------------------
(* f64 values as exact fractions *)

RECURSIVE GCD(_, _)
GCD(a, b) == IF b = 0 THEN a ELSE GCD(b, a % b)

NaN == [num |-> 0, den |-> 0]
Infinity == [num |-> 1, den |-> 0]

F64(n) == [num |-> n, den |-> 1]

IsNaN(a) == a.den = 0 /\ a.num = 0

IsFinite(a) == a.den > 0

f64_div(n, d) ==
  IF d = 0 THEN (IF n = 0 THEN NaN ELSE Infinity)
  ELSE LET g == GCD(n, d) IN [num |-> n \div g, den |-> d \div g]

f64_add(a, b) ==
  IF IsNaN(a) \/ IsNaN(b) THEN NaN
  ELSE IF ~IsFinite(a) \/ ~IsFinite(b) THEN Infinity
  ELSE LET g == GCD(a.den, b.den)
           l == (a.den \div g) * b.den
       IN f64_div(a.num * (l \div a.den) + b.num * (l \div b.den), l)

f64_mul(a, b) ==
  IF IsNaN(a) \/ IsNaN(b) THEN NaN
  ELSE IF ~IsFinite(a) \/ ~IsFinite(b)
       THEN (IF a.num = 0 \/ b.num = 0 THEN NaN ELSE Infinity)
  ELSE f64_div(a.num * b.num, a.den * b.den)

f64_le(a, b) == IsFinite(a) /\ IsFinite(b) /\ a.num * b.den <= b.num * a.den

---------------------------------------------------------------------------
(* Bytestat::new *)

new ==
  [ counter |-> 0,
    dist |-> [x \in Byte |-> 0],
    interval |-> EmptyBag,
    last |-> [x \in Byte |-> 0],
    score_counter |-> 0,
    score_non_zero |-> F64(0),
    score_unique |-> F64(0),
    score_amplitude |-> F64(0),
    score_interval_continuity |-> F64(0),
    score_interval_amplitude |-> F64(0),
    score |-> F64(0) ]

(* interval[x] *)
interval_at(self, x) == CopiesIn(x, self.interval)

(* Mutant: the index is taken after last[value] was set to the counter *)
interval_index_after_update(counter, last_seen) ==
  (counter - counter) % IntervalLen

(* ((self.counter - self.last[value]) as u16) as usize, with self.counter
   the counter after its increment *)
interval_index(counter, last_seen) == (counter - last_seen) % IntervalLen

(* Mutant: last[value] is not updated *)
analyze_keeps_last(self, value) ==
  LET counter == self.counter + 1
      index == (counter - self.last[value]) % IntervalLen
  IN [self EXCEPT
        !.counter = counter,
        !.dist = [@ EXCEPT ![value] = @ + 1],
        !.interval = @ (+) SetToBag({index})]

(* Mutant: dist[value] is set to 1 instead of incremented *)
analyze_sets_dist(self, value) ==
  LET counter == self.counter + 1
      index == (counter - self.last[value]) % IntervalLen
  IN [self EXCEPT
        !.counter = counter,
        !.dist = [@ EXCEPT ![value] = 1],
        !.interval = @ (+) SetToBag({index}),
        !.last = [@ EXCEPT ![value] = counter]]

(* Bytestat::analyze *)
analyze(self, value) ==
  LET counter == self.counter + 1
      index == interval_index(counter, self.last[value])
  IN [self EXCEPT
        !.counter = counter,
        !.dist = [@ EXCEPT ![value] = @ + 1],
        !.interval = @ (+) SetToBag({index}),
        !.last = [@ EXCEPT ![value] = counter]]

---------------------------------------------------------------------------
(* Bytestat::update_scores *)

(* Mutant: the nonzero entries are counted in interval instead of dist *)
dist_not_zero_of_interval(self) == Cardinality(BagToSet(self.interval))

(* 1 of 5 *)
dist_not_zero(self) == Cardinality({x \in Byte : self.dist[x] > 0})

calc_score_non_zero(self) == f64_div(dist_not_zero(self), ByteValues)

(* 2 of 5: dist_unique_map maps a count to the number of byte values that
   have it; dist_unique is the number of its entries equal to 1 *)
dist_unique_map(self) ==
  [c \in {self.dist[x] : x \in Byte} |->
      Cardinality({x \in Byte : self.dist[x] = c})]

dist_unique(self) ==
  LET m == dist_unique_map(self)
  IN Cardinality({c \in DOMAIN m : m[c] = 1})

calc_score_unique(self) == f64_div(dist_unique(self), ByteValues)

(* 3 of 5 *)
dist_amp_min(self) ==
  CHOOSE m \in {self.dist[x] : x \in Byte} :
     \A x \in Byte : m <= self.dist[x]

dist_amp_max(self) ==
  CHOOSE m \in {self.dist[x] : x \in Byte} :
     \A x \in Byte : m >= self.dist[x]

dist_amp_variation(self) == dist_amp_max(self) - dist_amp_min(self)

(* Mutant: the variation is not subtracted from the maximum *)
calc_score_amplitude_variation(self) ==
  f64_div(dist_amp_variation(self), dist_amp_max(self))

calc_score_amplitude(self) ==
  f64_div(dist_amp_max(self) - dist_amp_variation(self), dist_amp_max(self))

(* Mutant: the significance test is >= instead of > *)
significant_inclusive(self) ==
  {x \in BagToSet(self.interval) :
      /\ x >= 1
      /\ x < IntervalLen
      /\ CopiesIn(x, self.interval) >= self.counter \div SignificanceDiv}

(* 4 of 5: the buckets x in 1..65535 with interval[x] > counter / 4096.  A
   bucket that passes the test has a count above 0, so it is one of the
   buckets of the bag: the scan of 1..65535 selects exactly these.  For
   these x the cast `x as u16` changes nothing.  interval_min is computed
   by the code and never read; it is left out. *)
significant(self) ==
  {x \in BagToSet(self.interval) :
      /\ x >= 1
      /\ x < IntervalLen
      /\ interval_at(self, x) > self.counter \div SignificanceDiv}

interval_max(self) ==
  LET s == significant(self)
  IN IF s = {} THEN 0 ELSE CHOOSE m \in s : \A x \in s : x <= m

(* Mutant: populated starts at 0 *)
populated_from_zero(self) ==
  Cardinality({x \in significant(self) : x < interval_max(self)})

populated(self) ==
  LET top == interval_max(self)
  IN 1 + Cardinality({x \in significant(self) : x < top})

calc_score_interval_continuity(self) ==
  LET p == populated(self)
  IN f64_div(IF p < ContinuityCap THEN p ELSE ContinuityCap, ContinuityCap)

(* Mutant: interval_max is not capped at 512 *)
calc_score_interval_amplitude_uncapped(self) ==
  f64_div(interval_max(self), ContinuityCap)

(* 5 of 5 *)
calc_score_interval_amplitude(self) ==
  LET top == interval_max(self)
  IN f64_div(IF top > ContinuityCap THEN ContinuityCap ELSE top, ContinuityCap)

(* FINAL SCORE *)
calc_score(nz, un, am, ic, ia) ==
  LET s1 == f64_mul(nz, F64(Weight))
      s2 == f64_add(s1, f64_mul(un, F64(Weight)))
      s3 == f64_add(s2, f64_mul(am, F64(Weight)))
      s4 == f64_add(s3, f64_mul(ic, F64(Weight)))
  IN f64_add(s4, f64_mul(ia, F64(Weight)))

(* Mutant: the snapshot counts as fresh once it was ever computed *)
is_fresh_once(self) == self.score_counter > 0

is_fresh(self) == self.score_counter = self.counter

recompute(self) ==
  LET nz == calc_score_non_zero(self)
      un == calc_score_unique(self)
      am == calc_score_amplitude(self)
      ic == calc_score_interval_continuity(self)
      ia == calc_score_interval_amplitude(self)
  IN [self EXCEPT
        !.score_non_zero = nz,
        !.score_unique = un,
        !.score_amplitude = am,
        !.score_interval_continuity = ic,
        !.score_interval_amplitude = ia,
        !.score = calc_score(nz, un, am, ic, ia),
        !.score_counter = self.counter]

(* Mutant: no early return, the scores are recomputed at every call *)
update_scores_always(self) == recompute(self)

update_scores(self) == IF is_fresh(self) THEN self ELSE recompute(self)

---------------------------------------------------------------------------
(* The accessors: each gives the object after the call and the value
   returned. *)

get_score_non_zero(self) ==
  LET s == update_scores(self) IN [self |-> s, val |-> s.score_non_zero]

get_score_unique(self) ==
  LET s == update_scores(self) IN [self |-> s, val |-> s.score_unique]

get_score_amplitude(self) ==
  LET s == update_scores(self) IN [self |-> s, val |-> s.score_amplitude]

get_score_interval_continuity(self) ==
  LET s == update_scores(self)
  IN [self |-> s, val |-> s.score_interval_continuity]

get_score_interval_amplitude(self) ==
  LET s == update_scores(self)
  IN [self |-> s, val |-> s.score_interval_amplitude]

get_score(self) ==
  LET s == update_scores(self) IN [self |-> s, val |-> s.score]

get_scores_array(self) ==
  LET r1 == get_score_non_zero(self)
      r2 == get_score_unique(r1.self)
      r3 == get_score_amplitude(r2.self)
      r4 == get_score_interval_continuity(r3.self)
      r5 == get_score_interval_amplitude(r4.self)
      r6 == get_score(r5.self)
  IN [self |-> r6.self,
      val |-> <<r1.val, r2.val, r3.val, r4.val, r5.val, r6.val>>]

(* f64::to_string: the text of a value; distinct values have distinct
   texts *)
to_string(v) == [text_of |-> v]

get_scores_string(self, seperator) ==
  LET r1 == get_score_non_zero(self)
      r2 == get_score_unique(r1.self)
      r3 == get_score_amplitude(r2.self)
      r4 == get_score_interval_continuity(r3.self)
      r5 == get_score_interval_amplitude(r4.self)
      r6 == get_score(r5.self)
  IN [self |-> r6.self,
      val |-> <<to_string(r1.val), seperator, to_string(r2.val), seperator,
                to_string(r3.val), seperator, to_string(r4.val), seperator,
                to_string(r5.val), seperator, to_string(r6.val)>>]

---------------------------------------------------------------------------
(* The bytes the driver passes to analyze, in chunks: a run is one byte
   value n times, a cycle is value, value+1, ... (mod 256), n bytes. *)

Run(value, n) == [kind |-> "run", value |-> value, n |-> n]
Cycle == [kind |-> "cycle", value |-> 0, n |-> ByteValues]

byte_at(chunk, i) ==
  IF chunk.kind = "run" THEN chunk.value ELSE (chunk.value + i) % ByteValues

(* the driver's loop over bytes from .. from+n-1 of a chunk, one analyze
   call a byte, in order.  The first half is fed before the second: the
   test on its counter only fixes that order of evaluation (a counter is
   never negative). *)
RECURSIVE analyze_bytes(_, _, _, _)
analyze_bytes(self, chunk, from, n) ==
  IF n = 0 THEN self
  ELSE IF n = 1 THEN analyze(self, byte_at(chunk, from))
  ELSE LET half == analyze_bytes(self, chunk, from, n \div 2)
       IN IF half.counter >= 0
          THEN analyze_bytes(half, chunk, from + (n \div 2), n - (n \div 2))
          ELSE half

analyze_chunk(self, chunk) == analyze_bytes(self, chunk, 0, chunk.n)

---------------------------------------------------------------------------
(* Actions *)

Init ==
  /\ stats = new
  /\ input = <<>>
  /\ op = "new"
  /\ ret = "none"

(* stats.analyze(value) *)
Analyze(value) ==
  /\ stats.counter < MaxCounter
  /\ stats' = analyze(stats, value)
  /\ input' = Append(input, Run(value, 1))
  /\ op' = "analyze"
  /\ ret' = "none"

Call(name, r) ==
  /\ stats' = r.self
  /\ ret' = r.val
  /\ op' = name
  /\ UNCHANGED input

GetScoreNonZero == Call("get_score_non_zero", get_score_non_zero(stats))
GetScoreUnique == Call("get_score_unique", get_score_unique(stats))
GetScoreAmplitude == Call("get_score_amplitude", get_score_amplitude(stats))
GetScoreIntervalContinuity ==
  Call("get_score_interval_continuity", get_score_interval_continuity(stats))
GetScoreIntervalAmplitude ==
  Call("get_score_interval_amplitude", get_score_interval_amplitude(stats))
GetScore == Call("get_score", get_score(stats))
GetScoresArray == Call("get_scores_array", get_scores_array(stats))
GetScoresString(seperator) ==
  Call("get_scores_string", get_scores_string(stats, seperator))

Accessor ==
  \/ GetScoreNonZero
  \/ GetScoreUnique
  \/ GetScoreAmplitude
  \/ GetScoreIntervalContinuity
  \/ GetScoreIntervalAmplitude
  \/ GetScore
  \/ GetScoresArray
  \/ \E seperator \in Separators : GetScoresString(seperator)

Next ==
  \/ \E value \in Values : Analyze(value)
  \/ Accessor

Spec == Init /\ [][Next]_vars

(* The driver feeding a run of n equal bytes: n analyze calls *)
AnalyzeRun(value, n) ==
  /\ Len(input) < MaxRuns
  /\ stats.counter + n <= MaxLong
  /\ stats' = analyze_chunk(stats, Run(value, n))
  /\ input' = Append(input, Run(value, n))
  /\ op' = "analyze"
  /\ ret' = "none"

(* The driver feeding 0, 1, ..., 255 once more: 256 analyze calls *)
AnalyzeCycle ==
  /\ Len(input) < MaxCycles
  /\ \A i \in 1 .. Len(input) : input[i] = Cycle
  /\ stats' = analyze_chunk(stats, Cycle)
  /\ input' = Append(input, Cycle)
  /\ op' = "analyze"
  /\ ret' = "none"

NextLong ==
  \/ \E value \in RunValues, n \in RunLengths : AnalyzeRun(value, n)
  \/ AnalyzeCycle
  \/ GetScoresArray
  \/ GetScore

SpecLong == Init /\ [][NextLong]_vars

---------------------------------------------------------------------------
(* Vocabulary of the properties *)

AccessorNames ==
  {"get_score_non_zero", "get_score_unique", "get_score_amplitude",
   "get_score_interval_continuity", "get_score_interval_amplitude",
   "get_score", "get_scores_array", "get_scores_string"}

Fresh(self) == self.score_counter = self.counter

Snapshot(self) ==
  <<self.score_non_zero, self.score_unique, self.score_amplitude,
    self.score_interval_continuity, self.score_interval_amplitude,
    self.score>>

Accumulators(self) == <<self.counter, self.dist, self.interval, self.last>>

(* an engine that is fed the chunks and never queried *)
RECURSIVE Replay(_, _)
Replay(self, chunks) ==
  IF chunks = <<>> THEN self
  ELSE Replay(analyze_chunk(self, Head(chunks)), Tail(chunks))

(* what the accessor `name` returns on the object self *)
Answer(name, self, seperator) ==
  CASE name = "get_score_non_zero" -> get_score_non_zero(self).val
    [] name = "get_score_unique" -> get_score_unique(self).val
    [] name = "get_score_amplitude" -> get_score_amplitude(self).val
    [] name = "get_score_interval_continuity" ->
         get_score_interval_continuity(self).val
    [] name = "get_score_interval_amplitude" ->
         get_score_interval_amplitude(self).val
    [] name = "get_score" -> get_score(self).val
    [] name = "get_scores_array" -> get_scores_array(self).val
    [] name = "get_scores_string" -> get_scores_string(self, seperator).val

SeparatorOf(name, r) == IF name = "get_scores_string" THEN r[2] ELSE ""

InUnit(v) == f64_le(F64(0), v) /\ f64_le(v, F64(1))
InPercent(v) == f64_le(F64(0), v) /\ f64_le(v, F64(100))

AllCycles == \A i \in 1 .. Len(input) : input[i] = Cycle

SameByte ==
  /\ input # <<>>
  /\ \A i \in 1 .. Len(input) :
       input[i].kind = "run" /\ input[i].value = input[1].value

(* f[lo] + ... + f[hi] *)
RECURSIVE SumOver(_, _, _)
SumOver(f, lo, hi) ==
  IF lo > hi THEN 0
  ELSE IF lo = hi THEN f[lo]
  ELSE SumOver(f, lo, (lo + hi) \div 2) + SumOver(f, (lo + hi) \div 2 + 1, hi)

---------------------------------------------------------------------------
(* C1. Memoization: an accessor call returns what an engine that was fed
   the same bytes and never queried before would return, and leaves the
   snapshot fresh; the same accessor called twice with no analyze between
   returns the same value; only analyze turns a fresh snapshot stale, only
   an accessor turns a stale one fresh, and analyze always leaves it
   stale. *)
C1_State ==
  /\ op \in AccessorNames =>
       /\ Fresh(stats)
       /\ ret = Answer(op, Replay(new, input), SeparatorOf(op, ret))
  /\ op = "analyze" => ~Fresh(stats)

C1_Step ==
  /\ (op' \in AccessorNames /\ Fresh(stats)) =>
       Snapshot(stats') = Snapshot(stats)
  /\ (op' \in AccessorNames /\ op = op'
        /\ SeparatorOf(op, ret) = SeparatorOf(op', ret')) => ret' = ret
  /\ (Fresh(stats) /\ ~Fresh(stats')) => op' = "analyze"
  /\ (~Fresh(stats) /\ Fresh(stats')) => op' \in AccessorNames

C1_Memoization == []C1_State /\ [][C1_Step]_vars

(* get_scores_array has answered for a stream of two different bytes, with
   coverage 2/256 and uniqueness 0 *)
C1_Witness ==
  /\ op = "get_scores_array"
  /\ Len(input) >= 2
  /\ Fresh(stats)
  /\ ret[1] = f64_div(2, ByteValues)
  /\ ret[2] = F64(0)

---------------------------------------------------------------------------
(* C2. Range: whatever was fed, the five sub-scores of the snapshot, and
   the values the accessors return, lie in [0,1], and the composite lies
   in [0,100]. *)
C2_Range ==
  /\ \A i \in 1 .. 5 : InUnit(Snapshot(stats)[i])
  /\ InPercent(stats.score)
  /\ op = "get_scores_array" =>
       /\ \A i \in 1 .. 5 : InUnit(ret[i])
       /\ InPercent(ret[6])
  /\ op = "get_score" => InPercent(ret)

(* the largest significant gap is beyond 512 and the reported interval
   amplitude is the capped value 1 *)
C2_Witness ==
  /\ op = "get_scores_array"
  /\ interval_max(stats) > ContinuityCap
  /\ ret[5] = F64(1)

---------------------------------------------------------------------------
(* C3 as stated: after many full cycles 0..255, coverage is 1, the interval
   mass sits at bucket 256, interval continuity and interval amplitude are
   at their maximum 1 and the composite rounds to 100. *)
ManyCycles == SignificanceDiv \div ByteValues

C3_Original ==
  (op = "get_scores_array" /\ AllCycles /\ Len(input) >= ManyCycles) =>
    /\ ret[1] = F64(1)
    /\ interval_at(stats, ByteValues) > stats.counter - ByteValues
    /\ ret[4] = F64(1)
    /\ ret[5] = F64(1)
    /\ f64_le(f64_div(199, 2), ret[6])

(* C3 amended: after k >= 1 full cycles 0..255, coverage is 1, uniqueness is
   0 (all 256 counts are equal), amplitude is 1, bucket 256 holds
   256*(k-1)+1 gaps and each bucket 1..255 holds one, interval amplitude is
   256/512, interval continuity is 256/512 while k < 16 and 1/512 from
   k = 16 on, and the composite is 60 while k < 16 and 50 + 20/512 from
   k = 16 on. *)
C3_Amended ==
  (op = "get_scores_array" /\ AllCycles /\ Len(input) >= 1) =>
    LET k == Len(input)
    IN /\ stats.counter = ByteValues * k
       /\ ret[1] = F64(1)
       /\ ret[2] = F64(0)
       /\ ret[3] = F64(1)
       /\ interval_at(stats, ByteValues) = ByteValues * (k - 1) + 1
       /\ \A x \in 1 .. (ByteValues - 1) : interval_at(stats, x) = 1
       /\ ret[4] = IF k < ManyCycles THEN f64_div(1, 2)
                                     ELSE f64_div(1, ContinuityCap)
       /\ ret[5] = f64_div(1, 2)
       /\ ret[6] = IF k < ManyCycles THEN F64(60)
                                     ELSE f64_div(50 * ContinuityCap + Weight,
                                                  ContinuityCap)

C3_Witness ==
  /\ op = "get_scores_array"
  /\ AllCycles
  /\ Len(input) > ManyCycles
  /\ ret[4] = f64_div(1, ContinuityCap)

---------------------------------------------------------------------------
(* C4. Single sample: on a new engine, after one analyze of any byte value,
   the accessors return coverage 1/256, uniqueness 1/256, amplitude 0,
   interval continuity 1/512, interval amplitude 1/512 and composite
   20 * 6/512. *)
SingleSample ==
  <<f64_div(1, ByteValues), f64_div(1, ByteValues), F64(0),
    f64_div(1, ContinuityCap), f64_div(1, ContinuityCap),
    f64_div(Weight * 6, ContinuityCap)>>

C4_SingleSample ==
  (Len(input) = 1 /\ input[1].n = 1) =>
    /\ op = "get_scores_array" => ret = SingleSample
    /\ op = "get_score_non_zero" => ret = SingleSample[1]
    /\ op = "get_score_unique" => ret = SingleSample[2]
    /\ op = "get_score_amplitude" => ret = SingleSample[3]
    /\ op = "get_score_interval_continuity" => ret = SingleSample[4]
    /\ op = "get_score_interval_amplitude" => ret = SingleSample[5]
    /\ op = "get_score" => ret = SingleSample[6]

C4_Witness ==
  /\ input = <<Run(5, 1)>>
  /\ op = "get_scores_array"
  /\ ret[6] = f64_div(15, 64)

---------------------------------------------------------------------------
(* C5. No undefined result: no score of the snapshot and no returned value
   is NaN; a stale snapshot implies a nonzero largest frequency, so the
   amplitude division never has divisor 0; on the empty engine the
   accessors return the zero snapshot. *)
C5_NoNaN ==
  /\ \A i \in 1 .. 6 : IsFinite(Snapshot(stats)[i])
  /\ op \in AccessorNames \ {"get_scores_array", "get_scores_string"} =>
       IsFinite(ret)
  /\ op = "get_scores_array" => \A i \in 1 .. 6 : IsFinite(ret[i])
  /\ op = "get_scores_string" =>
       \A i \in 1 .. 6 : IsFinite(ret[2 * i - 1].text_of)
  /\ ~Fresh(stats) => dist_amp_max(stats) > 0
  /\ (stats.counter = 0 /\ op = "get_scores_array") =>
       ret = <<F64(0), F64(0), F64(0), F64(0), F64(0), F64(0)>>

(* the accessors have been called on the empty engine *)
C5_Witness ==
  /\ stats.counter = 0
  /\ op = "get_scores_array"
  /\ ret[3] = F64(0)

---------------------------------------------------------------------------
(* C6. Order insensitivity: an engine fed any permutation of the bytes fed
   to this one returns the same coverage, uniqueness and amplitude (streams
   of up to MaxPermLen bytes). *)
Orders ==
  {[i \in 1 .. Len(input) |-> input[p[i]]] :
      p \in Permutations(1 .. Len(input))}

C6_OrderInsensitive ==
  (op = "get_scores_array" /\ Len(input) <= MaxPermLen) =>
    \A other \in Orders :
      LET r == get_scores_array(Replay(new, other)).val
      IN r[1] = ret[1] /\ r[2] = ret[2] /\ r[3] = ret[3]

(* a permutation of the bytes fed gives other interval scores and another
   composite *)
C6_Witness ==
  /\ op = "get_scores_array"
  /\ Len(input) <= MaxPermLen
  /\ \E other \in Orders :
       LET r == get_scores_array(Replay(new, other)).val
       IN r[5] # ret[5] /\ r[6] # ret[6] /\ r[1] = ret[1]

---------------------------------------------------------------------------
(* C7. Degenerate stream: after the same byte value N >= 1 times, coverage
   is 1/256, amplitude is 0 and the composite is 20 * 6/512 whatever N. *)
C7_Degenerate ==
  (op = "get_scores_array" /\ SameByte) =>
    /\ ret[1] = f64_div(1, ByteValues)
    /\ ret[3] = F64(0)
    /\ ret[6] = f64_div(Weight * 6, ContinuityCap)

C7_Witness ==
  /\ op = "get_scores_array"
  /\ SameByte
  /\ stats.counter > IntervalLen \div 2
  /\ ret[6] = f64_div(15, 64)

---------------------------------------------------------------------------
(* C8. Effect of analyze(byte): the counter grows by 1, dist[byte] by 1,
   the one interval bucket (new counter - old last[byte]) mod 65536 by 1,
   last[byte] becomes the new counter, and nothing else changes, the
   snapshot included; feeding a chunk grows the counter by its length and
   lowers no count; an accessor changes no accumulator. *)
C8_Step ==
  /\ (op' = "analyze" /\ input'[Len(input')].n = 1) =>
       LET byte == input'[Len(input')].value
           gap == (stats.counter + 1 - stats.last[byte]) % IntervalLen
       IN /\ stats'.counter = stats.counter + 1
          /\ stats'.dist = [stats.dist EXCEPT ![byte] = @ + 1]
          /\ \A x \in BagToSet(stats.interval) \cup
                      BagToSet(stats'.interval) \cup {0, gap} :
               interval_at(stats', x) =
                 interval_at(stats, x) + (IF x = gap THEN 1 ELSE 0)
          /\ stats'.last = [stats.last EXCEPT ![byte] = stats.counter + 1]
  /\ op' = "analyze" =>
       /\ stats'.counter = stats.counter + input'[Len(input')].n
       /\ \A x \in Byte : stats'.dist[x] >= stats.dist[x]
       /\ \A x \in BagToSet(stats.interval) :
            interval_at(stats', x) >= interval_at(stats, x)
       /\ Snapshot(stats') = Snapshot(stats)
       /\ stats'.score_counter = stats.score_counter
  /\ op' \in AccessorNames => Accumulators(stats') = Accumulators(stats)

C8_AnalyzeEffect == [][C8_Step]_vars

(* one analyze call has recorded a gap of 65536 in bucket 0 *)
C8_Witness ==
  /\ op = "analyze"
  /\ input[Len(input)].n = 1
  /\ stats.counter = IntervalLen
  /\ interval_at(stats, 0) = 1

---------------------------------------------------------------------------
(* C9. Frequency sum: the 256 entries of dist add up to the counter. *)
C9_FrequencySum == SumOver(stats.dist, 0, ByteValues - 1) = stats.counter

C9_Witness ==
  /\ stats.counter = MaxCounter
  /\ op \in AccessorNames
  /\ Cardinality({x \in Byte : stats.dist[x] > 0}) >= 2

---------------------------------------------------------------------------
(* C10 as stated: bucket 0 of the interval histogram is never used. *)
C10_Original == interval_at(stats, 0) = 0

(* C10 amended: every last-seen position is at most the counter, so every
   gap recorded is at least 1 before it is cut to 16 bits; bucket 0 stays
   empty while fewer than 65536 bytes have been fed, and holds nothing but
   gaps that are positive multiples of 65536. *)
C10_Amended ==
  /\ \A x \in Byte : stats.last[x] <= stats.counter
  /\ stats.counter < IntervalLen => interval_at(stats, 0) = 0

C10_Witness ==
  /\ op = "analyze"
  /\ stats.counter = IntervalLen - 1
  /\ interval_at(stats, 0) = 0

===========================================================================
